---- MODULE Spec2Model ----
(***************************************************************************)
(* City-Connectivity-Analyzer: the CityGraph store of src/core/graph.py    *)
(* and the edge count of NetworkMetrics.get_network_stats, as a state      *)
(* machine whose actions are the public mutation operations.               *)
(*                                                                         *)
(* Python values are modelled as follows.                                  *)
(*   dict   a function whose DOMAIN is the set of keys                     *)
(*   list   a sequence; list.remove(x) deletes the first occurrence and    *)
(*          raises ValueError when x is absent                             *)
(*   set    a set                                                          *)
(*   float  an integer, or for a quotient a reduced fraction; a division   *)
(*          by zero is the value ZeroDivisionError                         *)
(*   bool   the strings "True" / "False"; an operation that raises has     *)
(*          ret = "ValueError"                                             *)
(***************************************************************************)
EXTENDS Integers, Sequences, FiniteSets, TLC

\* Node identifiers the callers pass in.
NodeIds == {"A", "B", "C"}

\* The (weight, speed_limit) arguments the callers pass to add_edge: a valid
\* road, a road with a negative distance and a road with a zero speed limit
\* (add_edge does not validate them, so non-positive values are accepted).
EdgeAttrs ==
    {[weight |-> 2, speed_limit |-> 60],
     [weight |-> -1, speed_limit |-> 60],
     [weight |-> 2, speed_limit |-> 0]}

\* Strings passed to set_metric_type (it does not validate its argument).
MetricTypes == {"distance", "time", "hops"}

\* Number of operations applied to one graph instance.
MaxOps == 6

\* Literal defaults of the getters.
DefaultDistance == 1

DefaultSpeed == 30

VARIABLES nodes, adjacency_list, edge_weights, speed_limits, metric_type, last, ops, result

vars == <<nodes, adjacency_list, edge_weights, speed_limits, metric_type, last, ops, result>>

----------------------------------------------------------------------------
\* Python containers

EmptyDict == [k \in {} |-> 0]

\* A local variable: F applied to the value of v, which is computed once
With(v, F(_)) == CHOOSE y \in {F(x) : x \in {v}} : TRUE

DictPut(d, k, v) == [x \in (DOMAIN d) \cup {k} |-> IF x = k THEN v ELSE d[x]]

DictPop(d, k) == [x \in (DOMAIN d) \ {k} |-> d[x]]

DictGet(d, k, default) == IF k \in DOMAIN d THEN d[k] ELSE default

ListContains(l, x) == \E i \in 1..Len(l) : l[i] = x

FirstIndex(l, x) == CHOOSE i \in 1..Len(l) : l[i] = x /\ \A j \in 1..(i - 1) : l[j] # x

\* list.remove(x) when x is present
ListRemove(l, x) == [i \in 1..(Len(l) - 1) |-> IF i < FirstIndex(l, x) THEN l[i] ELSE l[i + 1]]

ListAppend(l, x) == Append(l, x)

----------------------------------------------------------------------------
\* Floats

Abs(x) == IF x < 0 THEN -x ELSE x

RECURSIVE Gcd(_, _)
Gcd(x, y) == IF y = 0 THEN x ELSE Gcd(y, x % y)

Float(x) == [err |-> FALSE, num |-> x, den |-> 1]

ZeroDivisionError == [err |-> TRUE, num |-> 0, den |-> 1]

\* x / y on floats
Div(x, y) ==
    IF y = 0 THEN ZeroDivisionError
    ELSE LET g == Gcd(Abs(x), Abs(y))
             sgn == IF y < 0 THEN -1 ELSE 1
         IN  IF x = 0 THEN Float(0)
             ELSE [err |-> FALSE, num |-> sgn * (x \div g), den |-> Abs(y) \div g]

----------------------------------------------------------------------------
\* CityGraph

\* CityGraph.__init__
CityGraph(mt) ==
    [nodes |-> {}, adjacency_list |-> EmptyDict, edge_weights |-> EmptyDict,
     speed_limits |-> EmptyDict, metric_type |-> mt]

\* The current object
Graph ==
    [nodes |-> nodes, adjacency_list |-> adjacency_list, edge_weights |-> edge_weights,
     speed_limits |-> speed_limits, metric_type |-> metric_type]

\* add_node with the list assignment outside the membership test
add_node_resets_list(G, node) ==
    IF node \notin G.nodes
    THEN [g |-> [G EXCEPT !.nodes = @ \cup {node},
                          !.adjacency_list = DictPut(@, node, <<>>)],
          ret |-> "True"]
    ELSE [g |-> [G EXCEPT !.adjacency_list = DictPut(@, node, <<>>)], ret |-> "False"]

add_node(G, node) ==
    IF node \notin G.nodes
    THEN [g |-> [G EXCEPT !.nodes = @ \cup {node},
                          !.adjacency_list = DictPut(@, node, <<>>)],
          ret |-> "True"]
    ELSE [g |-> G, ret |-> "False"]

\* The for loop of remove_node from list position i on: the iterator reads
\* the live list adjacency_list[node] by index, so a removal from that very
\* list (neighbor = node) shifts the elements not yet visited.
RECURSIVE remove_node_loop(_, _, _)
remove_node_loop(G, node, i) ==
    IF i > Len(G.adjacency_list[node]) THEN [g |-> G, ret |-> "True"]
    ELSE LET neighbor == G.adjacency_list[node][i]
             ew == DictPop(DictPop(G.edge_weights, <<node, neighbor>>), <<neighbor, node>>)
         IN  IF neighbor \in DOMAIN G.adjacency_list
             THEN IF ListContains(G.adjacency_list[neighbor], node)
                  THEN remove_node_loop(
                         [G EXCEPT !.adjacency_list[neighbor] = ListRemove(@, node),
                                   !.edge_weights = ew], node, i + 1)
                  ELSE [g |-> G, ret |-> "ValueError"]
             ELSE remove_node_loop([G EXCEPT !.edge_weights = ew], node, i + 1)

remove_node(G, node) ==
    IF node \in G.nodes
    THEN LET r == remove_node_loop(G, node, 1)
         IN  IF r.ret = "True"
             THEN [g |-> [r.g EXCEPT !.nodes = @ \ {node},
                                     !.adjacency_list = DictPop(@, node)],
                   ret |-> "True"]
             ELSE r
    ELSE [g |-> G, ret |-> "False"]

\* add_edge appending to both lists without the membership tests
add_edge_always_appends(G, node1, node2, weight, speed_limit) ==
    IF node1 \notin G.nodes \/ node2 \notin G.nodes
    THEN [g |-> G, ret |-> "False"]
    ELSE LET adj1 == [G.adjacency_list EXCEPT ![node1] = ListAppend(@, node2)]
             adj2 == [adj1 EXCEPT ![node2] = ListAppend(@, node1)]
         IN  [g |-> [G EXCEPT
                       !.adjacency_list = adj2,
                       !.edge_weights =
                           DictPut(DictPut(@, <<node1, node2>>, weight), <<node2, node1>>, weight),
                       !.speed_limits =
                           DictPut(DictPut(@, <<node1, node2>>, speed_limit),
                                   <<node2, node1>>, speed_limit)],
              ret |-> "True"]

add_edge(G, node1, node2, weight, speed_limit) ==
    IF node1 \notin G.nodes \/ node2 \notin G.nodes
    THEN [g |-> G, ret |-> "False"]
    ELSE LET adj1 == IF ~ListContains(G.adjacency_list[node1], node2)
                     THEN [G.adjacency_list EXCEPT ![node1] = ListAppend(@, node2)]
                     ELSE G.adjacency_list
             adj2 == IF ~ListContains(adj1[node2], node1)
                     THEN [adj1 EXCEPT ![node2] = ListAppend(@, node1)]
                     ELSE adj1
         IN  [g |-> [G EXCEPT
                       !.adjacency_list = adj2,
                       !.edge_weights =
                           DictPut(DictPut(@, <<node1, node2>>, weight), <<node2, node1>>, weight),
                       !.speed_limits =
                           DictPut(DictPut(@, <<node1, node2>>, speed_limit),
                                   <<node2, node1>>, speed_limit)],
              ret |-> "True"]

remove_edge(G, node1, node2) ==
    LET adj1 == IF node1 \in DOMAIN G.adjacency_list
                   /\ ListContains(G.adjacency_list[node1], node2)
                THEN [G.adjacency_list EXCEPT ![node1] = ListRemove(@, node2)]
                ELSE G.adjacency_list
        adj2 == IF node2 \in DOMAIN adj1 /\ ListContains(adj1[node2], node1)
                THEN [adj1 EXCEPT ![node2] = ListRemove(@, node1)]
                ELSE adj1
    IN  [g |-> [G EXCEPT
                  !.adjacency_list = adj2,
                  !.edge_weights = DictPop(DictPop(@, <<node1, node2>>), <<node2, node1>>)],
         ret |-> "True"]

\* get_edge_weight returning the distance whatever the metric type
get_edge_weight_ignores_mode(G, node1, node2) ==
    Float(DictGet(G.edge_weights, <<node1, node2>>, DefaultDistance))

get_edge_weight(G, node1, node2) ==
    LET base_weight == DictGet(G.edge_weights, <<node1, node2>>, DefaultDistance)
    IN  IF G.metric_type = "time"
        THEN Div(base_weight, DictGet(G.speed_limits, <<node1, node2>>, DefaultSpeed))
        ELSE Float(base_weight)

get_edge_distance(G, node1, node2) ==
    Float(DictGet(G.edge_weights, <<node1, node2>>, DefaultDistance))

get_edge_time(G, node1, node2) ==
    Div(DictGet(G.edge_weights, <<node1, node2>>, DefaultDistance),
        DictGet(G.speed_limits, <<node1, node2>>, DefaultSpeed))

get_edge_speed_limit(G, node1, node2) ==
    Float(DictGet(G.speed_limits, <<node1, node2>>, DefaultSpeed))

get_degree(G, node) == Len(DictGet(G.adjacency_list, node, <<>>))

get_all_degrees(G) == [node \in G.nodes |-> get_degree(G, node)]

clear(G) ==
    [g |-> [G EXCEPT !.adjacency_list = EmptyDict, !.nodes = {},
                     !.edge_weights = EmptyDict, !.speed_limits = EmptyDict],
     ret |-> "None"]

set_metric_type(G, mt) == [g |-> [G EXCEPT !.metric_type = mt], ret |-> "None"]

----------------------------------------------------------------------------
\* NetworkMetrics

\* sum(...) over the values of a dict of numbers
RECURSIVE SumValues(_)
SumValues(d) ==
    IF DOMAIN d = {} THEN 0
    ELSE LET k == CHOOSE x \in DOMAIN d : TRUE
         IN  d[k] + SumValues(DictPop(d, k))

\* The counts of get_network_stats
get_network_stats(G) ==
    IF G.nodes = {}
    THEN [total_nodes |-> 0, total_edges |-> 0]
    ELSE [total_nodes |-> Cardinality(G.nodes),
          total_edges |->
              SumValues([k \in DOMAIN G.adjacency_list |-> Len(G.adjacency_list[k])]) \div 2]

----------------------------------------------------------------------------
\* Comparison of node identifiers (Python compares the strings)

NodeOrder == <<"A", "B", "C", "D", "E">>

Rank(n) == CHOOSE i \in 1..Len(NodeOrder) : NodeOrder[i] = n

StrLess(a, b) == Rank(a) < Rank(b)

----------------------------------------------------------------------------
\* Float arithmetic of the algorithms

\* float('inf')
Inf == [err |-> FALSE, num |-> 1, den |-> 0]

IsInf(x) == x.den = 0

\* x + y
AddF(x, y) ==
    IF IsInf(x) \/ IsInf(y) THEN Inf
    ELSE Div(x.num * y.den + y.num * x.den, x.den * y.den)

\* x < y
LessF(x, y) == x.num * y.den < y.num * x.den

----------------------------------------------------------------------------
\* DijkstraAlgorithm

\* None as a previous-node entry
None == ""

\* (distance, node) tuples compare by distance, then by node
TupleLess(p, q) == LessF(p[1], q[1]) \/ (p[1] = q[1] /\ StrLess(p[2], q[2]))

\* The tuple heapq.heappop returns
HeapMin(pq) == CHOOSE p \in pq : \A q \in pq : q = p \/ TupleLess(p, q)

\* The state both searches start from
DijkstraStart(G, start) ==
    [distances |-> [n \in G.nodes |-> IF n = start THEN Float(0) ELSE Inf],
     previous |-> [n \in G.nodes |-> None],
     pq |-> {<<Float(0), start>>},
     visited |-> {},
     raised |-> ""]

\* The for loop over the neighbors of current_node, from list position i on
RECURSIVE DijkstraRelax(_, _, _, _, _)
DijkstraRelax(G, st, current_node, current_distance, i) ==
    LET neighbors == DictGet(G.adjacency_list, current_node, <<>>)
    IN  IF i > Len(neighbors) THEN st
        ELSE LET neighbor == neighbors[i]
                 edge_weight == get_edge_weight(G, current_node, neighbor)
                 new_distance == AddF(current_distance, edge_weight)
             IN  IF neighbor \in st.visited
                 THEN DijkstraRelax(G, st, current_node, current_distance, i + 1)
                 ELSE IF edge_weight.err
                 THEN [st EXCEPT !.raised = "ZeroDivisionError"]
                 ELSE IF neighbor \notin DOMAIN st.distances
                 THEN [st EXCEPT !.raised = "KeyError"]
                 ELSE IF LessF(new_distance, st.distances[neighbor])
                 THEN DijkstraRelax(G,
                          [st EXCEPT !.distances[neighbor] = new_distance,
                                     !.previous[neighbor] = current_node,
                                     !.pq = @ \cup {<<new_distance, neighbor>>}],
                          current_node, current_distance, i + 1)
                 ELSE DijkstraRelax(G, st, current_node, current_distance, i + 1)

\* The while loop; early_exit is the break on current_node == end
RECURSIVE DijkstraLoop(_, _, _, _)
DijkstraLoop(G, st, end, early_exit) ==
    IF st.pq = {} THEN st
    ELSE LET top == HeapMin(st.pq)
             current_distance == top[1]
             current_node == top[2]
             popped == [st EXCEPT !.pq = @ \ {top}]
             marked == [popped EXCEPT !.visited = @ \cup {current_node}]
         IN  IF current_node \in st.visited THEN DijkstraLoop(G, popped, end, early_exit)
             ELSE IF early_exit /\ current_node = end THEN marked
             ELSE LET relaxed == DijkstraRelax(G, marked, current_node, current_distance, 1)
                  IN  IF relaxed.raised # "" THEN relaxed
                      ELSE DijkstraLoop(G, relaxed, end, early_exit)

\* The path rebuilt from the previous-node entries
RECURSIVE ReconstructPath(_, _)
ReconstructPath(previous, current) ==
    IF current = None THEN <<>>
    ELSE Append(ReconstructPath(previous, previous[current]), current)

\* A (path, distance) result; path None is found = FALSE
PathResult(path, total) == [raised |-> "", found |-> TRUE, path |-> path, total |-> total]

NoPath == [raised |-> "", found |-> FALSE, path |-> <<>>, total |-> Inf]

Raised(e) == [raised |-> e, found |-> FALSE, path |-> <<>>, total |-> Inf]

find_shortest_path(G, start, end) ==
    IF start \notin G.nodes \/ end \notin G.nodes THEN NoPath
    ELSE IF start = end THEN PathResult(<<start>>, Float(0))
    ELSE LET st == DijkstraLoop(G, DijkstraStart(G, start), end, TRUE)
         IN  IF st.raised # "" THEN Raised(st.raised)
             ELSE IF st.distances[end] = Inf THEN NoPath
             ELSE PathResult(ReconstructPath(st.previous, end), st.distances[end])

\* The result is a dict node -> (path, distance), or the exception raised
find_all_shortest_paths(G, start) ==
    IF start \notin G.nodes THEN [raised |-> "", paths |-> EmptyDict]
    ELSE LET st == DijkstraLoop(G, DijkstraStart(G, start), None, FALSE)
         IN  IF st.raised # "" THEN [raised |-> st.raised, paths |-> EmptyDict]
             ELSE [raised |-> "",
                   paths |->
                       [node \in G.nodes |->
                           IF node = start THEN PathResult(<<start>>, Float(0))
                           ELSE IF st.distances[node] = Inf THEN NoPath
                           ELSE PathResult(ReconstructPath(st.previous, node),
                                           st.distances[node])]]

----------------------------------------------------------------------------
\* Iteration over city_graph.nodes.  A Python set of strings has no defined
\* iteration order; every algorithm that iterates the node set takes the
\* order it meets as the sequence `order`, a permutation of G.nodes.

Orders(S) == {o \in [1..Cardinality(S) -> S] : \A i, j \in 1..Cardinality(S) : o[i] = o[j] => i = j}

\* The node set enumerated in ascending order
Ascending(S) == SelectSeq(NodeOrder, LAMBDA n : n \in S)

\* The orders the metrics calls are run with: the ascending order started at
\* each node in turn, so that every pair of nodes is met in both directions
Rotations(S) ==
    IF S = {} THEN {<<>>}
    ELSE LET l == Ascending(S)
         IN  {[i \in 1..Len(l) |-> l[((i + k - 1) % Len(l)) + 1]] : k \in 0..(Len(l) - 1)}

Neighbors(G, node) == DictGet(G.adjacency_list, node, <<>>)

\* The nested loops that collect every pair (node1, node2) with node2 in
\* node1's list and node1 < node2, from position i of `order` and position j
\* of the list on
RECURSIVE EnumerateEdges(_, _, _, _)
EnumerateEdges(G, order, i, j) ==
    IF i > Len(order) THEN <<>>
    ELSE IF j > Len(Neighbors(G, order[i])) THEN EnumerateEdges(G, order, i + 1, 1)
    ELSE LET node1 == order[i]
             node2 == Neighbors(G, node1)[j]
         IN  IF StrLess(node1, node2)
             THEN <<(<<node1, node2>>)>> \o EnumerateEdges(G, order, i, j + 1)
             ELSE EnumerateEdges(G, order, i, j + 1)

----------------------------------------------------------------------------
\* ConnectivityAlgorithm

\* _dfs: the visited set after the call
RECURSIVE dfs(_, _, _)
RECURSIVE dfs_loop(_, _, _, _)
dfs(G, node, visited) == dfs_loop(G, node, visited \cup {node}, 1)

dfs_loop(G, node, visited, i) ==
    IF i > Len(Neighbors(G, node)) THEN visited
    ELSE LET neighbor == Neighbors(G, node)[i]
         IN  IF neighbor \notin visited
             THEN dfs_loop(G, node, dfs(G, neighbor, visited), i + 1)
             ELSE dfs_loop(G, node, visited, i + 1)

is_connected(G, order) ==
    IF G.nodes = {} THEN TRUE
    ELSE LET start_node == order[1]
             visited == dfs(G, start_node, {})
         IN  Cardinality(visited) = Cardinality(G.nodes)

\* The while loop of find_path; queue holds (node, path) pairs
RECURSIVE find_path_loop(_, _, _, _)
RECURSIVE find_path_neighbors(_, _, _, _, _, _, _)
find_path_loop(G, end, queue, visited) ==
    IF queue = <<>> THEN NoPath
    ELSE find_path_neighbors(G, end, Tail(queue), visited, Head(queue)[1], Head(queue)[2], 1)

find_path_neighbors(G, end, queue, visited, current_node, path, i) ==
    IF i > Len(Neighbors(G, current_node)) THEN find_path_loop(G, end, queue, visited)
    ELSE LET neighbor == Neighbors(G, current_node)[i]
         IN  IF neighbor = end THEN PathResult(Append(path, neighbor), Inf)
             ELSE IF neighbor \notin visited
             THEN find_path_neighbors(G, end,
                      Append(queue, <<neighbor, Append(path, neighbor)>>),
                      visited \cup {neighbor}, current_node, path, i + 1)
             ELSE find_path_neighbors(G, end, queue, visited, current_node, path, i + 1)

\* The result is a path or None (found = FALSE); the total field is unused
find_path(G, start, end) ==
    IF start \notin G.nodes \/ end \notin G.nodes THEN NoPath
    ELSE IF start = end THEN PathResult(<<start>>, Inf)
    ELSE find_path_loop(G, end, <<(<<start, <<start>> >>)>>, {start})

\* _dfs_cycle_detection: the visited set after the call and the value returned
RECURSIVE dfs_cycle_detection(_, _, _, _)
RECURSIVE dfs_cycle_loop(_, _, _, _, _)
dfs_cycle_detection(G, node, visited, parent_node) ==
    dfs_cycle_loop(G, node, visited \cup {node}, parent_node, 1)

dfs_cycle_loop(G, node, visited, parent_node, i) ==
    IF i > Len(Neighbors(G, node)) THEN [visited |-> visited, ret |-> FALSE]
    ELSE LET neighbor == Neighbors(G, node)[i]
         IN  IF neighbor \notin visited
             THEN LET r == dfs_cycle_detection(G, neighbor, visited, node)
                  IN  IF r.ret THEN r
                      ELSE dfs_cycle_loop(G, node, r.visited, parent_node, i + 1)
             ELSE IF neighbor # parent_node THEN [visited |-> visited, ret |-> TRUE]
             ELSE dfs_cycle_loop(G, node, visited, parent_node, i + 1)

RECURSIVE has_cycle_loop(_, _, _, _)
has_cycle_loop(G, order, visited, i) ==
    IF i > Len(order) THEN FALSE
    ELSE IF order[i] \in visited THEN has_cycle_loop(G, order, visited, i + 1)
    ELSE LET r == dfs_cycle_detection(G, order[i], visited, None)
         IN  IF r.ret THEN TRUE ELSE has_cycle_loop(G, order, r.visited, i + 1)

has_cycle(G, order) ==
    IF G.nodes = {} THEN FALSE ELSE has_cycle_loop(G, order, {}, 1)

\* _dfs_component: the visited set and the component set after the call
RECURSIVE dfs_component(_, _, _, _)
RECURSIVE dfs_component_loop(_, _, _, _, _)
dfs_component(G, node, visited, component) ==
    dfs_component_loop(G, node, visited \cup {node}, component \cup {node}, 1)

dfs_component_loop(G, node, visited, component, i) ==
    IF i > Len(Neighbors(G, node)) THEN [visited |-> visited, component |-> component]
    ELSE LET neighbor == Neighbors(G, node)[i]
         IN  IF neighbor \notin visited
             THEN LET r == dfs_component(G, neighbor, visited, component)
                  IN  dfs_component_loop(G, node, r.visited, r.component, i + 1)
             ELSE dfs_component_loop(G, node, visited, component, i + 1)

RECURSIVE get_components_loop(_, _, _, _)
get_components_loop(G, order, visited, i) ==
    IF i > Len(order) THEN <<>>
    ELSE IF order[i] \in visited THEN get_components_loop(G, order, visited, i + 1)
    ELSE LET r == dfs_component(G, order[i], visited, {})
         IN  <<r.component>> \o get_components_loop(G, order, r.visited, i + 1)

\* The list of components, in the order found
get_components(G, order) ==
    IF G.nodes = {} THEN <<>> ELSE get_components_loop(G, order, {}, 1)

\* temp_graph after the add_node loop
RECURSIVE AddNodes(_, _, _)
AddNodes(T, order, i) ==
    IF i > Len(order) THEN T ELSE AddNodes(add_node(T, order[i]).g, order, i + 1)

\* temp_graph after the add_edge loops, which copy every enumerated pair but
\* `edge` with the distance and speed limit read from city_graph
RECURSIVE CopyEdges(_, _, _, _, _)
CopyEdges(T, G, pairs, edge, i) ==
    IF i > Len(pairs) THEN T
    ELSE LET n1 == pairs[i][1]
             n2 == pairs[i][2]
         IN  IF pairs[i] # edge
             THEN CopyEdges(add_edge(T, n1, n2, get_edge_distance(G, n1, n2).num,
                                     get_edge_speed_limit(G, n1, n2).num).g,
                            G, pairs, edge, i + 1)
             ELSE CopyEdges(T, G, pairs, edge, i + 1)

\* The copy of city_graph without `edge` that find_bridges builds.  Its node
\* set is a new set with the same elements; it is iterated in `order` too.
BridgeTempGraph(G, order, edge) ==
    CopyEdges(AddNodes(CityGraph(G.metric_type), order, 1), G,
              EnumerateEdges(G, order, 1, 1), edge, 1)

RECURSIVE find_bridges_loop(_, _, _, _)
find_bridges_loop(G, order, edges, i) ==
    IF i > Len(edges) THEN <<>>
    ELSE LET original_components == Len(get_components(G, order))
             new_components == Len(get_components(BridgeTempGraph(G, order, edges[i]), order))
         IN  IF new_components > original_components
             THEN <<edges[i]>> \o find_bridges_loop(G, order, edges, i + 1)
             ELSE find_bridges_loop(G, order, edges, i + 1)

find_bridges(G, order) ==
    IF G.nodes = {} THEN <<>>
    ELSE find_bridges_loop(G, order, EnumerateEdges(G, order, 1, 1), 1)

\* The copy of city_graph without `node` that find_articulation_points
\* builds: the other nodes, and every enumerated pair that avoids `node`
RECURSIVE CopyEdgesAvoiding(_, _, _, _, _)
CopyEdgesAvoiding(T, G, pairs, node, i) ==
    IF i > Len(pairs) THEN T
    ELSE LET n1 == pairs[i][1]
             n2 == pairs[i][2]
         IN  IF n1 # node /\ n2 # node
             THEN CopyEdgesAvoiding(add_edge(T, n1, n2, get_edge_distance(G, n1, n2).num,
                                             get_edge_speed_limit(G, n1, n2).num).g,
                                    G, pairs, node, i + 1)
             ELSE CopyEdgesAvoiding(T, G, pairs, node, i + 1)

ArticulationTempGraph(G, order, node) ==
    CopyEdgesAvoiding(
        AddNodes(CityGraph(G.metric_type), SelectSeq(order, LAMBDA n : n # node), 1),
        G, EnumerateEdges(G, order, 1, 1), node, 1)

RECURSIVE find_articulation_points_loop(_, _, _)
find_articulation_points_loop(G, order, i) ==
    IF i > Len(order) THEN <<>>
    ELSE LET node == order[i]
             temp_graph == ArticulationTempGraph(G, order, node)
             original_components == Len(get_components(G, order))
             new_components ==
                 Len(get_components(temp_graph, SelectSeq(order, LAMBDA n : n # node)))
         IN  IF new_components > original_components
             THEN <<node>> \o find_articulation_points_loop(G, order, i + 1)
             ELSE find_articulation_points_loop(G, order, i + 1)

find_articulation_points(G, order) ==
    IF G.nodes = {} \/ Cardinality(G.nodes) <= 2 THEN <<>>
    ELSE find_articulation_points_loop(G, order, 1)

----------------------------------------------------------------------------
\* KruskalAlgorithm

\* Tuples that compare by their weight alone
TripleLess_weight_only(p, q) == LessF(p[1], q[1])

\* (weight, node1, node2) tuples compare field by field
TripleLess(p, q) ==
    \/ LessF(p[1], q[1])
    \/ p[1] = q[1] /\ StrLess(p[2], q[2])
    \/ p[1] = q[1] /\ p[2] = q[2] /\ StrLess(p[3], q[3])

\* list.sort(): a stable ascending sort
RECURSIVE SortInsert(_, _)
SortInsert(sorted, x) ==
    IF sorted = <<>> THEN <<x>>
    ELSE IF TripleLess(x, sorted[Len(sorted)])
    THEN Append(SortInsert(SubSeq(sorted, 1, Len(sorted) - 1), x), sorted[Len(sorted)])
    ELSE Append(sorted, x)

\* A sort that leaves the list as it is
Sort_keeps_order(l) == l

RECURSIVE Sort(_)
Sort(l) == IF l = <<>> THEN <<>> ELSE SortInsert(Sort(SubSeq(l, 1, Len(l) - 1)), l[Len(l)])

\* find(node) with path compression: the parent dict after the call and the
\* root returned; parent[node] on a node that is no key raises KeyError
RECURSIVE find(_, _)
find(parent, node) ==
    IF node \notin DOMAIN parent THEN [parent |-> parent, root |-> None, raised |-> "KeyError"]
    ELSE IF parent[node] # node
    THEN LET r == find(parent, parent[node])
         IN  IF r.raised # "" THEN r
             ELSE [parent |-> [r.parent EXCEPT ![node] = r.root], root |-> r.root,
                   raised |-> ""]
    ELSE [parent |-> parent, root |-> node, raised |-> ""]

\* union(node1, node2): the dicts after the call and the value returned
union(uf, node1, node2) ==
    LET f1 == find(uf.parent, node1)
        f2 == find(f1.parent, node2)
        root1 == f1.root
        root2 == f2.root
    IN  IF f1.raised # "" THEN [uf EXCEPT !.raised = f1.raised]
        ELSE IF f2.raised # "" THEN [uf EXCEPT !.raised = f2.raised, !.parent = f1.parent]
        ELSE IF root1 = root2 THEN [uf EXCEPT !.parent = f2.parent, !.ret = FALSE]
        ELSE IF uf.rank[root1] < uf.rank[root2]
        THEN [uf EXCEPT !.parent = [f2.parent EXCEPT ![root1] = root2], !.ret = TRUE]
        ELSE IF uf.rank[root1] > uf.rank[root2]
        THEN [uf EXCEPT !.parent = [f2.parent EXCEPT ![root2] = root1], !.ret = TRUE]
        ELSE [uf EXCEPT !.parent = [f2.parent EXCEPT ![root2] = root1],
                        !.rank[root1] = @ + 1, !.ret = TRUE]

\* The loop that builds the MST from the sorted edges
RECURSIVE find_mst_loop(_, _, _, _, _)
find_mst_loop(edges, uf, mst_edges, total_weight, i) ==
    IF i > Len(edges)
    THEN [raised |-> "", edges |-> mst_edges, total_weight |-> total_weight]
    ELSE LET u == union(uf, edges[i][2], edges[i][3])
         IN  IF u.raised # ""
             THEN [raised |-> u.raised, edges |-> <<>>, total_weight |-> Float(0)]
             ELSE IF u.ret
             THEN find_mst_loop(edges, u, Append(mst_edges, <<edges[i][2], edges[i][3]>>),
                                AddF(total_weight, edges[i][1]), i + 1)
             ELSE find_mst_loop(edges, u, mst_edges, total_weight, i + 1)

\* The result is (mst_edges, total_weight), or the exception raised
find_mst(G, order) ==
    IF G.nodes = {} THEN [raised |-> "", edges |-> <<>>, total_weight |-> Float(0)]
    ELSE LET pairs == EnumerateEdges(G, order, 1, 1)
             edges == [i \in 1..Len(pairs) |->
                          <<get_edge_weight(G, pairs[i][1], pairs[i][2]), pairs[i][1], pairs[i][2]>>]
         IN  IF \E i \in 1..Len(edges) : edges[i][1].err
             THEN [raised |-> "ZeroDivisionError", edges |-> <<>>, total_weight |-> Float(0)]
             ELSE find_mst_loop(Sort(edges),
                                [parent |-> [n \in G.nodes |-> n],
                                 rank |-> [n \in G.nodes |-> 0],
                                 raised |-> "", ret |-> FALSE],
                                <<>>, Float(0), 1)

\* The members of a component, as the loops of find_mst_by_component visit
\* them.  The order does not reach the result: find_mst sorts the edges of
\* the subgraph as (weight, node1, node2) tuples, which are all different.
ComponentOrder(component) == SelectSeq(NodeOrder, LAMBDA n : n \in component)

\* The subgraph of one component: its members as nodes (a listed neighbor
\* that is not a node of city_graph becomes a node of the subgraph) and the
\* pairs inside the component with node1 < node2, attributes read from city_graph
RECURSIVE CopyEdgesWithin(_, _, _, _, _)
CopyEdgesWithin(T, G, pairs, component, i) ==
    IF i > Len(pairs) THEN T
    ELSE LET n1 == pairs[i][1]
             n2 == pairs[i][2]
         IN  IF n2 \in component
             THEN CopyEdgesWithin(add_edge(T, n1, n2, get_edge_distance(G, n1, n2).num,
                                           get_edge_speed_limit(G, n1, n2).num).g,
                                  G, pairs, component, i + 1)
             ELSE CopyEdgesWithin(T, G, pairs, component, i + 1)

ComponentSubgraph(G, component) ==
    LET members == ComponentOrder(component)
    IN  CopyEdgesWithin(AddNodes(CityGraph(G.metric_type), members, 1), G,
                        EnumerateEdges(G, members, 1, 1), component, 1)

\* The component loop of find_mst_by_component; mst_by_component[i] is the
\* value stored under the key "component_i"
RECURSIVE find_mst_by_component_loop(_, _, _, _)
find_mst_by_component_loop(G, components, mst_by_component, i) ==
    IF i > Len(components) THEN [raised |-> "", mst_by_component |-> mst_by_component]
    ELSE LET subgraph == ComponentSubgraph(G, components[i])
             r == find_mst(subgraph, ComponentOrder(components[i]))
         IN  IF r.raised # "" THEN [raised |-> r.raised, mst_by_component |-> <<>>]
             ELSE find_mst_by_component_loop(G, components,
                                             Append(mst_by_component, r.edges), i + 1)

find_mst_by_component(G, order) ==
    find_mst_by_component_loop(G, get_components(G, order), <<>>, 1)

----------------------------------------------------------------------------
\* NetworkMetrics: the derived statistics

RECURSIVE Pow10(_)
Pow10(n) == IF n = 0 THEN 1 ELSE 10 * Pow10(n - 1)

\* round(x, ndigits): to the nearest multiple of 10^-ndigits, halves to even
Round(x, ndigits) ==
    IF x.err \/ IsInf(x) THEN x
    ELSE LET n == x.num * Pow10(ndigits)
             q == n \div x.den
             r2 == 2 * (n % x.den)
             up == r2 > x.den \/ (r2 = x.den /\ q % 2 = 1)
         IN  Div(IF up THEN q + 1 ELSE q, Pow10(ndigits))

\* find_dead_ends: the nodes of degree 1, in iteration order
find_dead_ends(G, order) == SelectSeq(order, LAMBDA node : get_degree(G, node) = 1)

\* The loop of _calculate_avg_edge_metric over the items `keys` still to visit:
\* total_metric and edge_count, or err when get_edge_time raises
RECURSIVE avg_edge_metric_loop(_, _, _, _, _)
avg_edge_metric_loop(G, mt, keys, total_metric, edge_count) ==
    IF keys = {} THEN [err |-> FALSE, total_metric |-> total_metric, edge_count |-> edge_count]
    ELSE LET k == CHOOSE x \in keys : TRUE
             term == IF mt = "time" THEN get_edge_time(G, k[1], k[2])
                     ELSE Float(G.edge_weights[k])
         IN  IF ~StrLess(k[1], k[2])
             THEN avg_edge_metric_loop(G, mt, keys \ {k}, total_metric, edge_count)
             ELSE IF term.err
             THEN [err |-> TRUE, total_metric |-> total_metric, edge_count |-> edge_count]
             ELSE avg_edge_metric_loop(G, mt, keys \ {k}, AddF(total_metric, term),
                                       edge_count + 1)

calculate_avg_edge_metric(G, mt) ==
    IF DOMAIN G.edge_weights = {} THEN Float(0)
    ELSE LET r == avg_edge_metric_loop(G, mt, DOMAIN G.edge_weights, Float(0), 0)
         IN  IF r.err THEN ZeroDivisionError
             ELSE IF r.edge_count > 0
             THEN Div(r.total_metric.num, r.total_metric.den * r.edge_count)
             ELSE Float(0)

\* NetworkMetrics.get_network_stats: the whole dictionary, or the exception raised
network_stats(G, order) ==
    IF G.nodes = {}
    THEN [raised |-> "", total_nodes |-> 0, total_edges |-> 0, density |-> Float(0),
          avg_degree |-> Float(0), dead_ends |-> 0, components |-> 0,
          is_connected |-> TRUE, has_cycles |-> FALSE, avg_distance |-> Float(0),
          avg_time |-> Float(0), component_details |-> <<>>]
    ELSE LET total_nodes == get_network_stats(G).total_nodes
             total_edges == get_network_stats(G).total_edges
             max_possible_edges == (total_nodes * (total_nodes - 1)) \div 2
             density == IF max_possible_edges > 0 THEN Div(total_edges, max_possible_edges)
                        ELSE Float(0)
             total_degree == SumValues(get_all_degrees(G))
             avg_degree == IF total_nodes > 0 THEN Div(total_degree, total_nodes)
                           ELSE Float(0)
             components == get_components(G, order)
             avg_distance == calculate_avg_edge_metric(G, "distance")
             avg_time == calculate_avg_edge_metric(G, "time")
         IN  [raised |-> IF avg_time.err THEN "ZeroDivisionError" ELSE "",
              total_nodes |-> total_nodes, total_edges |-> total_edges,
              density |-> Round(density, 4), avg_degree |-> Round(avg_degree, 2),
              dead_ends |-> Len(find_dead_ends(G, order)),
              components |-> Len(components),
              is_connected |-> is_connected(G, order),
              has_cycles |-> has_cycle(G, order),
              avg_distance |-> Round(avg_distance, 2),
              avg_time |-> Round(avg_time, 4),
              component_details |-> components]

\* The (start, end) pairs of `for i, start in enumerate(nodes_list): for end
\* in nodes_list[i+1:]`, in the order the loops visit them
RECURSIVE NodePairs(_, _, _)
NodePairs(nodes_list, i, j) ==
    IF i > Len(nodes_list) THEN <<>>
    ELSE IF j > Len(nodes_list) THEN NodePairs(nodes_list, i + 1, i + 2)
    ELSE <<(<<nodes_list[i], nodes_list[j]>>)>> \o NodePairs(nodes_list, i, j + 1)

\* x / y on floats
DivF(x, y) == Div(x.num * y.den, x.den * y.num)

RECURSIVE MaxOf(_)
MaxOf(S) ==
    LET x == CHOOSE y \in S : TRUE
    IN  IF S = {x} THEN x
        ELSE LET m == MaxOf(S \ {x}) IN IF x > m THEN x ELSE m

\* betweenness[node] += 1.0 for the nodes path[k], ..., path[-2]
RECURSIVE CreditPath(_, _, _)
CreditPath(betweenness, path, k) ==
    IF k >= Len(path) THEN betweenness
    ELSE CreditPath([betweenness EXCEPT ![path[k]] = AddF(@, Float(1))], path, k + 1)

\* The pair loop of _calculate_betweenness_centrality
RECURSIVE betweenness_loop(_, _, _, _)
betweenness_loop(G, pairs, betweenness, i) ==
    IF i > Len(pairs) THEN [raised |-> "", value |-> betweenness]
    ELSE With(find_shortest_path(G, pairs[i][1], pairs[i][2]), LAMBDA r :
             IF r.raised # "" THEN [raised |-> r.raised, value |-> betweenness]
             ELSE IF r.found /\ Len(r.path) > 2
             THEN betweenness_loop(G, pairs, CreditPath(betweenness, r.path, 2), i + 1)
             ELSE betweenness_loop(G, pairs, betweenness, i + 1))

calculate_betweenness_centrality(G, order) ==
    LET nodes_list == order
        total_pairs == (Len(nodes_list) * (Len(nodes_list) - 1)) \div 2
    IN  With(betweenness_loop(G, NodePairs(nodes_list, 1, 2),
                              [node \in G.nodes |-> Float(0)], 1), LAMBDA r :
            IF r.raised # "" \/ total_pairs <= 0 THEN r
            ELSE [raised |-> "",
                  value |-> [node \in G.nodes |->
                                Div(r.value[node].num, r.value[node].den * total_pairs)]])

\* The inner loop of _calculate_closeness_centrality for one node
RECURSIVE closeness_inner(_, _, _, _, _, _)
closeness_inner(G, order, node, total_distance, reachable_nodes, j) ==
    IF j > Len(order)
    THEN [raised |-> "", total_distance |-> total_distance,
          reachable_nodes |-> reachable_nodes]
    ELSE IF order[j] = node
    THEN closeness_inner(G, order, node, total_distance, reachable_nodes, j + 1)
    ELSE With(find_shortest_path(G, node, order[j]), LAMBDA r :
             IF r.raised # ""
             THEN [raised |-> r.raised, total_distance |-> total_distance,
                   reachable_nodes |-> reachable_nodes]
             ELSE IF ~IsInf(r.total)
             THEN closeness_inner(G, order, node, AddF(total_distance, r.total),
                                  reachable_nodes + 1, j + 1)
             ELSE closeness_inner(G, order, node, total_distance, reachable_nodes, j + 1))

\* The node loop of _calculate_closeness_centrality
RECURSIVE closeness_loop(_, _, _, _)
closeness_loop(G, order, closeness, i) ==
    IF i > Len(order) THEN [raised |-> "", value |-> closeness]
    ELSE With(closeness_inner(G, order, order[i], Float(0), 0, 1), LAMBDA r :
             LET c == IF r.reachable_nodes > 0
                      THEN DivF(Float(r.reachable_nodes), r.total_distance)
                      ELSE Float(0)
             IN  IF r.raised # "" THEN [raised |-> r.raised, value |-> closeness]
                 ELSE IF c.err THEN [raised |-> "ZeroDivisionError", value |-> closeness]
                 ELSE closeness_loop(G, order, DictPut(closeness, order[i], c), i + 1))

calculate_closeness_centrality(G, order) == closeness_loop(G, order, EmptyDict, 1)

\* NetworkMetrics.get_centrality_metrics: the three dictionaries, or the
\* exception raised
get_centrality_metrics(G, order) ==
    IF G.nodes = {}
    THEN [raised |-> "", degree |-> EmptyDict, betweenness |-> EmptyDict,
          closeness |-> EmptyDict]
    ELSE LET max_degree == MaxOf({get_degree(G, node) : node \in G.nodes})
             degree_centrality ==
                 [node \in G.nodes |->
                     IF max_degree > 0 THEN Div(get_degree(G, node), max_degree)
                     ELSE Float(0)]
         IN  With(calculate_betweenness_centrality(G, order), LAMBDA b :
             IF b.raised # ""
             THEN [raised |-> b.raised, degree |-> EmptyDict, betweenness |-> EmptyDict,
                   closeness |-> EmptyDict]
             ELSE With(calculate_closeness_centrality(G, order), LAMBDA c :
                  IF c.raised # ""
                  THEN [raised |-> c.raised, degree |-> EmptyDict, betweenness |-> EmptyDict,
                        closeness |-> EmptyDict]
                  ELSE [raised |-> "", degree |-> degree_centrality,
                        betweenness |-> b.value, closeness |-> c.value]))

\* The first pair loop of get_network_efficiency
RECURSIVE efficiency_loop(_, _, _, _, _)
efficiency_loop(G, pairs, total_inverse_distance, total_pairs, i) ==
    IF i > Len(pairs)
    THEN [raised |-> "", total_inverse_distance |-> total_inverse_distance,
          total_pairs |-> total_pairs]
    ELSE With(find_shortest_path(G, pairs[i][1], pairs[i][2]), LAMBDA r :
             LET inverse == DivF(Float(1), r.total)
             IN  IF r.raised # ""
                 THEN [raised |-> r.raised, total_inverse_distance |-> total_inverse_distance,
                       total_pairs |-> total_pairs]
                 ELSE IF IsInf(r.total)
                 THEN efficiency_loop(G, pairs, total_inverse_distance, total_pairs + 1, i + 1)
                 ELSE IF inverse.err
                 THEN [raised |-> "ZeroDivisionError",
                       total_inverse_distance |-> total_inverse_distance,
                       total_pairs |-> total_pairs]
                 ELSE efficiency_loop(G, pairs, AddF(total_inverse_distance, inverse),
                                      total_pairs + 1, i + 1))

\* The second pair loop of get_network_efficiency: the pairs with a path
reachable_pairs(G, pairs) ==
    Cardinality({i \in 1..Len(pairs) :
                    LET r == find_shortest_path(G, pairs[i][1], pairs[i][2])
                    IN  r.found /\ r.path # <<>>})

\* Connections between the neighbors of one node
neighbor_connections(G, neighbors) ==
    Cardinality({p \in (1..Len(neighbors)) \X (1..Len(neighbors)) :
                    p[1] < p[2] /\ ListContains(Neighbors(G, neighbors[p[1]]), neighbors[p[2]])})

\* The node loop of _calculate_local_efficiency
RECURSIVE local_efficiency_loop(_, _, _, _, _)
local_efficiency_loop(G, order, total_clustering, valid_nodes, i) ==
    IF i > Len(order)
    THEN IF valid_nodes > 0
         THEN Div(total_clustering.num, total_clustering.den * valid_nodes)
         ELSE Float(0)
    ELSE LET neighbors == Neighbors(G, order[i])
             max_possible == (Len(neighbors) * (Len(neighbors) - 1)) \div 2
         IN  IF Len(neighbors) >= 2 /\ max_possible > 0
             THEN local_efficiency_loop(G, order,
                      AddF(total_clustering,
                           Div(neighbor_connections(G, neighbors), max_possible)),
                      valid_nodes + 1, i + 1)
             ELSE local_efficiency_loop(G, order, total_clustering, valid_nodes, i + 1)

calculate_local_efficiency(G, order) ==
    IF G.nodes = {} THEN Float(0) ELSE local_efficiency_loop(G, order, Float(0), 0, 1)

\* NetworkMetrics.get_network_efficiency: the three scores, or the exception raised
get_network_efficiency(G, order) ==
    IF G.nodes = {} \/ Cardinality(G.nodes) < 2
    THEN [raised |-> "", global_efficiency |-> Float(0), local_efficiency |-> Float(0),
          connectivity_score |-> Float(0)]
    ELSE With(efficiency_loop(G, NodePairs(order, 1, 2), Float(0), 0, 1), LAMBDA r :
             LET pairs == NodePairs(order, 1, 2)
                 global_efficiency ==
                     IF r.total_pairs > 0
                     THEN Div(r.total_inverse_distance.num,
                              r.total_inverse_distance.den * r.total_pairs)
                     ELSE Float(0)
             IN  IF r.raised # ""
                 THEN [raised |-> r.raised, global_efficiency |-> Float(0),
                       local_efficiency |-> Float(0), connectivity_score |-> Float(0)]
                 ELSE With(reachable_pairs(G, pairs), LAMBDA reachable :
                      With(calculate_local_efficiency(G, order), LAMBDA local_efficiency :
                          LET connectivity_score ==
                                  IF r.total_pairs > 0 THEN Div(reachable, r.total_pairs)
                                  ELSE Float(0)
                          IN  [raised |-> "",
                               global_efficiency |-> Round(global_efficiency, 4),
                               local_efficiency |-> Round(local_efficiency, 4),
                               connectivity_score |-> Round(connectivity_score, 4)])))

----------------------------------------------------------------------------
\* The state machine: one action per public mutation operation

NoCall == [op |-> "__init__", node1 |-> "", node2 |-> "", ret |-> "None", had_edge |-> FALSE]

\* No algorithm has been called
NoResult == [op |-> "", start |-> "", end |-> "", order |-> <<>>, out |-> ""]

\* node2 is in node1's list and node1 in node2's list
Connected(G, node1, node2) ==
    /\ node1 \in DOMAIN G.adjacency_list
    /\ node2 \in DOMAIN G.adjacency_list
    /\ ListContains(G.adjacency_list[node1], node2)
    /\ ListContains(G.adjacency_list[node2], node1)

Apply(r, call) ==
    /\ ops < MaxOps
    /\ ops' = ops + 1
    /\ nodes' = r.g.nodes
    /\ adjacency_list' = r.g.adjacency_list
    /\ edge_weights' = r.g.edge_weights
    /\ speed_limits' = r.g.speed_limits
    /\ metric_type' = r.g.metric_type
    /\ last' = [call EXCEPT !.ret = r.ret]
    /\ result' = result

Init ==
    /\ nodes = CityGraph("distance").nodes
    /\ adjacency_list = CityGraph("distance").adjacency_list
    /\ edge_weights = CityGraph("distance").edge_weights
    /\ speed_limits = CityGraph("distance").speed_limits
    /\ metric_type = CityGraph("distance").metric_type
    /\ last = NoCall
    /\ ops = 0
    /\ result = NoResult

AddNode ==
    \E n \in NodeIds :
        Apply(add_node(Graph, n), [NoCall EXCEPT !.op = "add_node", !.node1 = n])

RemoveNode ==
    \E n \in NodeIds :
        Apply(remove_node(Graph, n), [NoCall EXCEPT !.op = "remove_node", !.node1 = n])

AddEdge ==
    \E n1 \in NodeIds, n2 \in NodeIds, at \in EdgeAttrs :
        Apply(add_edge(Graph, n1, n2, at.weight, at.speed_limit),
              [NoCall EXCEPT !.op = "add_edge", !.node1 = n1, !.node2 = n2,
                             !.had_edge = Connected(Graph, n1, n2)])

RemoveEdge ==
    \E n1 \in NodeIds, n2 \in NodeIds :
        Apply(remove_edge(Graph, n1, n2),
              [NoCall EXCEPT !.op = "remove_edge", !.node1 = n1, !.node2 = n2,
                             !.had_edge = Connected(Graph, n1, n2)])

Clear == Apply(clear(Graph), [NoCall EXCEPT !.op = "clear"])

SetMetricType ==
    \E mt \in MetricTypes :
        Apply(set_metric_type(Graph, mt), [NoCall EXCEPT !.op = "set_metric_type"])

Next == AddNode \/ RemoveNode \/ AddEdge \/ RemoveEdge \/ Clear \/ SetMetricType

Spec == Init /\ [][Next]_vars

----------------------------------------------------------------------------
\* The algorithms on graphs built through the mutation operations.
\*
\* Every initial graph is what the public operations leave after a script of
\* calls: the nodes are added, then the edges, in ascending or descending
\* order of the pairs; a script may also add a self-loop on DamageNode before
\* the edges, then remove that node (its first neighbor is skipped by the
\* loop of remove_node and keeps listing it), then add it again; or it may
\* overwrite the first edge with a negative distance and a zero speed limit.

AlgNodes == <<"A", "B", "C", "D">>

AlgNodeIds == {AlgNodes[i] : i \in 1..Len(AlgNodes)}

AlgPairs ==
    <<(<<"A", "B">>), <<"A", "C">>, <<"A", "D">>, <<"B", "C">>, <<"B", "D">>, <<"C", "D">> >>

DamageNode == "B"

Damages == {"none", "self_loop", "dangling", "asymmetric", "bad_attrs"}

\* (roads, metric type): equal roads; or short roads between neighbouring
\* identifiers with a low speed limit and long fast roads between the others,
\* so that the two metric types order the edges differently.  The travel
\* times 1/8 and 3/48 and their sums are exact in binary floating point, so
\* the fractions of this model are the floats of the program.
Sceneries == {<<"uniform", "distance">>, <<"mixed", "distance">>, <<"mixed", "time">>}

EdgeAttr(pattern, pair) ==
    IF pattern = "uniform" THEN [weight |-> 2, speed_limit |-> 60]
    ELSE IF Rank(pair[2]) - Rank(pair[1]) = 1 THEN [weight |-> 1, speed_limit |-> 8]
    ELSE [weight |-> 3, speed_limit |-> 48]

\* The chosen pairs (indices S of AlgPairs) in the order of insertion
RECURSIVE PairScript(_, _, _)
PairScript(S, reversed, i) ==
    IF i > Len(AlgPairs) THEN <<>>
    ELSE LET rest == PairScript(S, reversed, i + 1)
         IN  IF i \notin S THEN rest
             ELSE IF reversed THEN Append(rest, AlgPairs[i])
             ELSE <<AlgPairs[i]>> \o rest

RECURSIVE AddEdges(_, _, _, _)
AddEdges(G, pairs, pattern, i) ==
    IF i > Len(pairs) THEN G
    ELSE AddEdges(add_edge(G, pairs[i][1], pairs[i][2], EdgeAttr(pattern, pairs[i]).weight,
                           EdgeAttr(pattern, pairs[i]).speed_limit).g,
                  pairs, pattern, i + 1)

BuildGraph(k, S, reversed, scenery, damage) ==
    LET pairs == PairScript(S, reversed, 1)
        g1 == AddNodes(CityGraph(scenery[2]), SubSeq(AlgNodes, 1, k), 1)
        g2 == IF damage \in {"self_loop", "dangling", "asymmetric"}
              THEN add_edge(g1, DamageNode, DamageNode, 2, 60).g
              ELSE g1
        g3 == AddEdges(g2, pairs, scenery[1], 1)
        g4 == IF damage \in {"dangling", "asymmetric"} THEN remove_node(g3, DamageNode).g
              ELSE IF damage = "bad_attrs" /\ pairs # <<>>
              THEN add_edge(g3, pairs[1][1], pairs[1][2], -1, 0).g
              ELSE g3
    IN  IF damage = "asymmetric" THEN add_node(g4, DamageNode).g ELSE g4

\* The graphs built by the scripts, with roads and metric type from `sceneries`
BuiltGraph(sceneries) ==
    /\ \E k \in 0..Len(AlgNodes) :
       \E S \in SUBSET {i \in 1..Len(AlgPairs) : Rank(AlgPairs[i][2]) <= k} :
       \E reversed \in BOOLEAN, scenery \in sceneries, damage \in Damages :
           /\ damage # "none" => k >= Rank(DamageNode)
           /\ LET G == BuildGraph(k, S, reversed, scenery, damage)
              IN  /\ nodes = G.nodes
                  /\ adjacency_list = G.adjacency_list
                  /\ edge_weights = G.edge_weights
                  /\ speed_limits = G.speed_limits
                  /\ metric_type = G.metric_type
    /\ last = NoCall
    /\ ops = 0
    /\ result = NoResult

\* One algorithm call on the graph: the graph is only read
\* An algorithm call that sorts the adjacency lists it walks in place
Call_sorting_lists(op, start, end, order, out) ==
    /\ result' = [op |-> op, start |-> start, end |-> end, order |-> order, out |-> out]
    /\ adjacency_list' =
           [n \in DOMAIN adjacency_list |->
               SelectSeq(NodeOrder, LAMBDA m : ListContains(adjacency_list[n], m))]
    /\ UNCHANGED <<nodes, edge_weights, speed_limits, metric_type, last, ops>>

Call(op, start, end, order, out) ==
    /\ result' = [op |-> op, start |-> start, end |-> end, order |-> order, out |-> out]
    /\ UNCHANGED <<nodes, adjacency_list, edge_weights, speed_limits, metric_type, last, ops>>

FindShortestPath ==
    /\ result = NoResult
    /\ \E start \in AlgNodeIds, end \in AlgNodeIds :
           Call("find_shortest_path", start, end, <<>>, find_shortest_path(Graph, start, end))

FindAllShortestPaths ==
    /\ result = NoResult
    /\ \E start \in AlgNodeIds :
           Call("find_all_shortest_paths", start, "", <<>>, find_all_shortest_paths(Graph, start))

FindMst ==
    /\ result = NoResult
    /\ \E order \in Orders(nodes) : Call("find_mst", "", "", order, find_mst(Graph, order))

IsConnected ==
    /\ result = NoResult
    /\ \E order \in Orders(nodes) : Call("is_connected", "", "", order, is_connected(Graph, order))

FindPath ==
    /\ result = NoResult
    /\ \E start \in AlgNodeIds, end \in AlgNodeIds :
           Call("find_path", start, end, <<>>, find_path(Graph, start, end))

HasCycle ==
    /\ result = NoResult
    /\ \E order \in Orders(nodes) : Call("has_cycle", "", "", order, has_cycle(Graph, order))

GetComponents ==
    /\ result = NoResult
    /\ \E order \in Orders(nodes) :
           Call("get_components", "", "", order, get_components(Graph, order))

FindBridges ==
    /\ result = NoResult
    /\ \E order \in Orders(nodes) : Call("find_bridges", "", "", order, find_bridges(Graph, order))

FindDeadEnds ==
    /\ result = NoResult
    /\ \E order \in Orders(nodes) :
           Call("find_dead_ends", "", "", order, find_dead_ends(Graph, order))

FindArticulationPoints ==
    /\ result = NoResult
    /\ \E order \in Orders(nodes) :
           Call("find_articulation_points", "", "", order,
                find_articulation_points(Graph, order))

FindMstByComponent ==
    /\ result = NoResult
    /\ \E order \in Orders(nodes) :
           Call("find_mst_by_component", "", "", order, find_mst_by_component(Graph, order))

GetNetworkStats ==
    /\ result = NoResult
    /\ \E order \in Rotations(nodes) :
           Call("get_network_stats", "", "", order, network_stats(Graph, order))

GetCentralityMetrics ==
    /\ result = NoResult
    /\ \E order \in Rotations(nodes) :
           Call("get_centrality_metrics", "", "", order, get_centrality_metrics(Graph, order))

GetNetworkEfficiency ==
    /\ result = NoResult
    /\ \E order \in Rotations(nodes) :
           Call("get_network_efficiency", "", "", order, get_network_efficiency(Graph, order))

\* The weighted algorithms and the unweighted path search, on every scenery
PathInit == BuiltGraph(Sceneries)

PathNext ==
    FindShortestPath \/ FindAllShortestPaths \/ FindMst \/ FindPath \/ FindMstByComponent

PathSpec == PathInit /\ [][PathNext]_vars

\* The connectivity algorithms, which read no edge attribute that decides
\* their result, on the uniform scenery
ConnInit == BuiltGraph({<<"uniform", "distance">>})

ConnNext ==
    \/ IsConnected \/ FindPath \/ HasCycle \/ GetComponents \/ FindBridges
    \/ FindDeadEnds \/ FindArticulationPoints

ConnSpec == ConnInit /\ [][ConnNext]_vars

\* The statistics of NetworkMetrics, on every scenery
MetricsInit == BuiltGraph(Sceneries)

MetricsNext == GetNetworkStats \/ GetCentralityMetrics \/ GetNetworkEfficiency

MetricsSpec == MetricsInit /\ [][MetricsNext]_vars

\* Number of nodes of the graphs every algorithm is called on.
MaxAlgNodes == 3

\* Every algorithm and statistic, on the uniform scenery
AlgInit == BuiltGraph({<<"uniform", "distance">>}) /\ Cardinality(nodes) <= MaxAlgNodes

AlgNext ==
    \/ FindShortestPath \/ FindAllShortestPaths \/ FindMst \/ FindMstByComponent
    \/ IsConnected \/ FindPath \/ HasCycle \/ GetComponents \/ FindDeadEnds
    \/ FindArticulationPoints \/ FindBridges
    \/ GetNetworkStats \/ GetCentralityMetrics \/ GetNetworkEfficiency

AlgSpec == AlgInit /\ [][AlgNext]_vars

----------------------------------------------------------------------------
\* Vocabulary of the properties

GraphVars == <<nodes, adjacency_list, edge_weights, speed_limits, metric_type>>

\* b is listed as a neighbor of a
Lists(a, b) == a \in DOMAIN adjacency_list /\ ListContains(adjacency_list[a], b)

\* No edge between a and b: neither lists the other
NoEdge(a, b) == ~Lists(a, b) /\ ~Lists(b, a)

BothOrNeither(d, a, b) ==
    /\ <<a, b>> \in DOMAIN d <=> <<b, a>> \in DOMAIN d
    /\ <<a, b>> \in DOMAIN d /\ <<b, a>> \in DOMAIN d => d[<<a, b>>] = d[<<b, a>>]

NoDuplicates(l) == \A i, j \in 1..Len(l) : l[i] = l[j] => i = j

----------------------------------------------------------------------------
\* C1: after any sequence of add_node, remove_node, add_edge, remove_edge and
\* clear calls the graph is symmetric: for all nodes a, b, b is in
\* adjacency_list[a] iff a is in adjacency_list[b], and edge_weights and
\* speed_limits each hold the key (a,b) iff they hold (b,a), with equal values.
C1_Symmetric ==
    \A a, b \in nodes :
        /\ Lists(a, b) <=> Lists(b, a)
        /\ BothOrNeither(edge_weights, a, b)
        /\ BothOrNeither(speed_limits, a, b)

\* C2: after any sequence of mutation calls, add_edge(n, n, ...) included, no
\* node n appears in adjacency_list[n] and no attribute map has a key (n, n).
C2_NoSelfLoops ==
    \A n \in NodeIds :
        /\ ~Lists(n, n)
        /\ <<n, n>> \notin DOMAIN edge_weights
        /\ <<n, n>> \notin DOMAIN speed_limits

\* C3: after remove_node(n) returns True, n is not in nodes, n appears in no
\* adjacency list, and neither edge_weights nor speed_limits has a key with n
\* as an endpoint.
C3_RemoveNodeCascades ==
    (last.op = "remove_node" /\ last.ret = "True") =>
        LET n == last.node1
        IN  /\ n \notin nodes
            /\ \A k \in DOMAIN adjacency_list : ~ListContains(adjacency_list[k], n)
            /\ \A key \in (DOMAIN edge_weights) \cup (DOMAIN speed_limits) :
                   key[1] # n /\ key[2] # n

\* C4: in any reachable state, for two existing nodes a, b not joined by an
\* edge, add_edge(a, b, d, s) followed by remove_edge(a, b) restores the
\* adjacency lists, edge_weights and speed_limits exactly.
C4_AddThenRemoveRestores ==
    \A a, b \in nodes : \A at \in EdgeAttrs :
        (a # b /\ NoEdge(a, b)) =>
            LET after ==
                    remove_edge(add_edge(Graph, a, b, at.weight, at.speed_limit).g, a, b).g
            IN  /\ after.adjacency_list = adjacency_list
                /\ after.edge_weights = edge_weights
                /\ after.speed_limits = speed_limits

\* C5: for any pair of nodes with no edge currently between them (never
\* added, or added and later removed), get_edge_distance returns 1.0 and
\* get_edge_speed_limit returns 30.0.
C5_MissingEdgeDefaults ==
    \A a, b \in nodes :
        (a # b /\ NoEdge(a, b)) =>
            /\ get_edge_distance(Graph, a, b) = Float(1)
            /\ get_edge_speed_limit(Graph, a, b) = Float(30)

\* C6: at most one edge per unordered pair: no adjacency list contains the
\* same neighbor twice, and add_edge(a, b, d2, s2) on an already-connected
\* pair (each lists the other) leaves every adjacency list unchanged and sets
\* distance d2 and speed s2 for both (a,b) and (b,a).
C6_OneEdgePerPair ==
    /\ \A k \in DOMAIN adjacency_list : NoDuplicates(adjacency_list[k])
    /\ \A a, b \in NodeIds : \A at \in EdgeAttrs :
           Connected(Graph, a, b) =>
               LET d2 == at.weight
                   s2 == at.speed_limit
                   r == add_edge(Graph, a, b, d2, s2)
               IN  /\ r.ret = "True"
                   /\ r.g.adjacency_list = adjacency_list
                   /\ r.g.nodes = nodes
                   /\ DictGet(r.g.edge_weights, <<a, b>>, DefaultDistance) = d2
                   /\ DictGet(r.g.edge_weights, <<b, a>>, DefaultDistance) = d2
                   /\ DictGet(r.g.speed_limits, <<a, b>>, DefaultSpeed) = s2
                   /\ DictGet(r.g.speed_limits, <<b, a>>, DefaultSpeed) = s2

\* C6 witness: add_edge has just been called on a pair of distinct nodes that
\* was already connected, and it replaced the pair's attributes.
C6_Witness ==
    /\ last.op = "add_edge" /\ last.ret = "True" /\ last.had_edge
    /\ last.node1 # last.node2
    /\ Len(adjacency_list[last.node1]) = 2
    /\ edge_weights[<<last.node1, last.node2>>] = 2
    /\ speed_limits[<<last.node2, last.node1>>] = 60

\* C7: in every reachable state the sum of get_all_degrees() values equals
\* 2 * total_edges as reported by get_network_stats.
C7_DegreeSum ==
    SumValues(get_all_degrees(Graph)) = 2 * get_network_stats(Graph).total_edges

\* C8: add_node on a present node, add_edge with an absent endpoint and
\* remove_node on an absent node return False without raising, and leave
\* nodes, adjacency lists, edge_weights, speed_limits and metric_type as
\* they were.
C8_FailureStep ==
    LET failing ==
            \/ last'.op = "add_node" /\ last'.node1 \in nodes
            \/ last'.op = "add_edge" /\ (last'.node1 \notin nodes \/ last'.node2 \notin nodes)
            \/ last'.op = "remove_node" /\ last'.node1 \notin nodes
    IN  /\ failing => last'.ret = "False"
        /\ last'.ret = "False" => failing /\ UNCHANGED GraphVars

C8_FailuresLeaveState == [][C8_FailureStep]_vars

\* C8 witness: a failed add_edge on a graph that holds an edge.
C8_Witness ==
    /\ last.op = "add_edge" /\ last.ret = "False"
    /\ nodes # {} /\ DOMAIN edge_weights # {}

\* C9: for every existing edge (a,b), get_edge_weight is the stored distance
\* in distance mode and distance / speed_limit in time mode; get_edge_distance,
\* get_edge_time and get_edge_speed_limit do not depend on the metric mode;
\* set_metric_type changes nothing but metric_type.
C9_WeightViews ==
    /\ \A a, b \in NodeIds :
           (Lists(a, b) /\ <<a, b>> \in DOMAIN edge_weights) =>
               /\ metric_type = "distance" =>
                      get_edge_weight(Graph, a, b) = Float(edge_weights[<<a, b>>])
               /\ metric_type = "time" =>
                      get_edge_weight(Graph, a, b) =
                          Div(edge_weights[<<a, b>>], speed_limits[<<a, b>>])
               /\ \A mt \in MetricTypes :
                      LET other == [Graph EXCEPT !.metric_type = mt]
                      IN  /\ get_edge_distance(other, a, b) = Float(edge_weights[<<a, b>>])
                          /\ get_edge_speed_limit(other, a, b) = Float(speed_limits[<<a, b>>])
                          /\ get_edge_time(other, a, b) =
                                 Div(edge_weights[<<a, b>>], speed_limits[<<a, b>>])
    /\ \A mt \in MetricTypes :
           set_metric_type(Graph, mt).g = [Graph EXCEPT !.metric_type = mt]

\* C9 witness: time mode has been selected on a graph with an edge of
\* distance 2 and speed limit 60, whose weight is then 1/30.
C9_Witness ==
    /\ last.op = "set_metric_type" /\ metric_type = "time"
    /\ \E a, b \in nodes :
           /\ a # b /\ Connected(Graph, a, b)
           /\ <<a, b>> \in DOMAIN edge_weights
           /\ edge_weights[<<a, b>>] = 2 /\ speed_limits[<<a, b>>] = 60
           /\ get_edge_weight(Graph, a, b) = [err |-> FALSE, num |-> 1, den |-> 30]

\* C10: in every state reachable through the public mutation operations,
\* every stored edge has distance > 0 and speed_limit > 0, so every weight
\* Dijkstra consumes, in either metric mode, is >= 0.
C10_PositiveAttributes ==
    \A a, b \in NodeIds :
        (Lists(a, b) /\ <<a, b>> \in DOMAIN edge_weights) =>
            /\ edge_weights[<<a, b>>] > 0
            /\ speed_limits[<<a, b>>] > 0
            /\ \A mt \in {"distance", "time"} :
                   LET w == get_edge_weight([Graph EXCEPT !.metric_type = mt], a, b)
                   IN  ~w.err /\ w.num >= 0

----------------------------------------------------------------------------
\* Vocabulary of the algorithm properties

\* (a, b) is an edge of G: both are nodes and each lists the other
IsEdge(G, a, b) ==
    /\ a \in G.nodes /\ b \in G.nodes
    /\ ListContains(Neighbors(G, a), b) /\ ListContains(Neighbors(G, b), a)

\* The nodes joined to a node of S by a chain of edges
RECURSIVE Closure(_, _)
Closure(G, S) ==
    LET step == S \cup {n \in G.nodes : \E m \in S : IsEdge(G, m, n)}
    IN  IF step = S THEN S ELSE Closure(G, step)

Reachable(G, start, end) ==
    start \in G.nodes /\ end \in G.nodes /\ end \in Closure(G, {start})

\* Every listed neighbor is a node, lists are symmetric, no node lists itself
WellFormed(G) ==
    /\ DOMAIN G.adjacency_list = G.nodes
    /\ \A a \in G.nodes : \A i \in 1..Len(G.adjacency_list[a]) :
           LET b == G.adjacency_list[a][i]
           IN  b \in G.nodes /\ b # a /\ ListContains(G.adjacency_list[b], a)

\* The weight of every listed edge, in the current metric type, is a number >= 0
NonNegativeWeights(G) ==
    \A a \in DOMAIN G.adjacency_list : \A i \in 1..Len(G.adjacency_list[a]) :
        LET w == get_edge_weight(G, a, G.adjacency_list[a][i])
        IN  ~w.err /\ w.num >= 0

\* Every two consecutive nodes of p are joined by an edge
IsWalk(G, p) == \A i \in 1..(Len(p) - 1) : IsEdge(G, p[i], p[i + 1])

\* 0.0 + w(p[1],p[2]) + w(p[2],p[3]) + ..., summed from the left
RECURSIVE PathWeight(_, _)
PathWeight(G, p) ==
    IF Len(p) <= 1 THEN Float(0)
    ELSE AddF(PathWeight(G, SubSeq(p, 1, Len(p) - 1)),
              get_edge_weight(G, p[Len(p) - 1], p[Len(p)]))

\* C11: for every graph with non-negative weights and every pair (start, end)
\* with end reachable from start, find_shortest_path returns a path that
\* begins with start, ends with end, joins adjacent nodes at every step, and
\* whose summed get_edge_weight values equal the returned total.
C11_ShortestPathIsPath ==
    (/\ result.op = "find_shortest_path"
     /\ NonNegativeWeights(Graph)
     /\ Reachable(Graph, result.start, result.end)) =>
        LET out == result.out
        IN  /\ out.raised = "" /\ out.found
            /\ out.path[1] = result.start
            /\ out.path[Len(out.path)] = result.end
            /\ IsWalk(Graph, out.path)
            /\ PathWeight(Graph, out.path) = out.total

\* Brute force: every simple walk that extends p and stops at end
RECURSIVE PathsFrom(_, _, _)
PathsFrom(G, p, end) ==
    IF p[Len(p)] = end THEN {p}
    ELSE UNION {PathsFrom(G, Append(p, n), end) :
                   n \in {m \in G.nodes : IsEdge(G, p[Len(p)], m) /\ ~ListContains(p, m)}}

AllPaths(G, start, end) == PathsFrom(G, <<start>>, end)

\* C12: for every graph with non-negative weights and every reachable pair
\* (start, end), the total returned by find_shortest_path is the minimum,
\* over all paths from start to end, of the summed current-metric edge
\* weights, early exit included.
C12_ShortestPathIsMinimal ==
    (/\ result.op = "find_shortest_path"
     /\ NonNegativeWeights(Graph)
     /\ Reachable(Graph, result.start, result.end)) =>
        LET out == result.out
            paths == AllPaths(Graph, result.start, result.end)
        IN  /\ out.raised = "" /\ out.found
            /\ \E p \in paths : PathWeight(Graph, p) = out.total
            /\ \A p \in paths : ~LessF(PathWeight(Graph, p), out.total)

\* C13: in every graph state reachable through the mutation operations,
\* find_shortest_path(start, end) returns (None, inf) without raising when
\* start or end is not a node or end is unreachable from start, and
\* ([start], 0.0) when start = end is a node; find_path returns None without
\* raising when an endpoint is not a node.
C13_UnknownOrUnreachable ==
    LET unknown == result.start \notin nodes \/ result.end \notin nodes
    IN  /\ result.op = "find_shortest_path" =>
            /\ (unknown \/ ~Reachable(Graph, result.start, result.end)) =>
                   result.out = NoPath
            /\ (result.start = result.end /\ result.start \in nodes) =>
                   result.out = PathResult(<<result.start>>, Float(0))
        /\ (result.op = "find_path" /\ unknown) => result.out = NoPath

\* C14: for every graph and every node start in it,
\* find_all_shortest_paths(start) returns a mapping whose keys are exactly the
\* graph's nodes, every entry equal to what find_shortest_path(start, t)
\* returns, unreachable nodes mapped to (None, inf).
C14_AllPathsAgree ==
    (result.op = "find_all_shortest_paths" /\ result.start \in nodes) =>
        LET out == result.out
        IN  /\ out.raised = ""
            /\ DOMAIN out.paths = nodes
            /\ \A t \in nodes :
                   /\ out.paths[t] = find_shortest_path(Graph, result.start, t)
                   /\ ~Reachable(Graph, result.start, t) => out.paths[t] = NoPath

\* The set F of pairs holds no cycle: no non-empty part of it meets each of
\* its endpoints at least twice
AcyclicSet(F) ==
    \A S \in SUBSET F :
        S # {} =>
            \E e \in S : \E k \in 1..2 :
                Cardinality({f \in S : f[1] = e[k] \/ f[2] = e[k]}) < 2

\* The list es of pairs names no edge twice and holds no cycle
Acyclic(es) ==
    LET F == {es[i] : i \in 1..Len(es)}
    IN  Cardinality(F) = Len(es) /\ AcyclicSet(F)

\* C15: for every graph, connected or not, find_mst returns an acyclic set of
\* existing edges with exactly |V| - len(get_components()) edges; a
\* disconnected graph gives a forest, not an error.
C15_MstIsSpanningForest ==
    result.op = "find_mst" =>
        LET out == result.out
        IN  /\ out.raised = ""
            /\ \A i \in 1..Len(out.edges) : IsEdge(Graph, out.edges[i][1], out.edges[i][2])
            /\ Acyclic(out.edges)
            /\ Len(out.edges) = Cardinality(nodes) - Len(get_components(Graph, result.order))

\* The undirected edges of G, each named once with the lower node id first
EdgeSet(G) == {e \in G.nodes \X G.nodes : StrLess(e[1], e[2]) /\ IsEdge(G, e[1], e[2])}

\* Brute force: the spanning forests of G are the acyclic sets of edges to
\* which no further edge can be added without closing a cycle
SpanningForests(G) ==
    {F \in SUBSET EdgeSet(G) :
        /\ AcyclicSet(F)
        /\ \A e \in EdgeSet(G) \ F : ~AcyclicSet(F \cup {e})}

\* The summed current-metric weight of a set of edges
RECURSIVE SetWeight(_, _)
SetWeight(G, F) ==
    IF F = {} THEN Float(0)
    ELSE LET e == CHOOSE x \in F : TRUE
         IN  AddF(SetWeight(G, F \ {e}), get_edge_weight(G, e[1], e[2]))

\* 0.0 + w(es[1]) + w(es[2]) + ..., summed in list order
RECURSIVE ListWeight(_, _)
ListWeight(G, es) ==
    IF es = <<>> THEN Float(0)
    ELSE AddF(ListWeight(G, SubSeq(es, 1, Len(es) - 1)),
              get_edge_weight(G, es[Len(es)][1], es[Len(es)][2]))

\* C16: for every graph, the total weight find_mst returns equals the sum of
\* the current-metric weights of the returned edges and is minimal among the
\* total weights of all spanning forests of the graph.
C16_MstIsMinimal ==
    result.op = "find_mst" =>
        LET out == result.out
        IN  /\ out.raised = ""
            /\ out.total_weight = ListWeight(Graph, out.edges)
            /\ \A F \in SpanningForests(Graph) :
                   ~LessF(SetWeight(Graph, F), out.total_weight)

\* C17: for every graph, len(get_components()) = 1 if and only if
\* is_connected() returns True, whichever node the search starts from, the
\* empty graph and single-node graphs included.
C17_ConnectedIffOneComponent ==
    result.op = "is_connected" =>
        (result.out <=> Len(get_components(Graph, result.order)) = 1)

\* C18: for every graph reachable through the mutation operations,
\* has_cycle() returns True if and only if |E| > |V| - |components|, with |E|
\* the edge count and |V| the node count of get_network_stats and
\* |components| = len(get_components()), whichever order the nodes and
\* neighbors are visited in.
C18_CycleIffExtraEdge ==
    result.op = "has_cycle" =>
        LET stats == get_network_stats(Graph)
        IN  result.out <=>
                (stats.total_edges >
                     stats.total_nodes - Len(get_components(Graph, result.order)))

\* len(get_components()) after remove_edge(e), iterating the node set in `order`
ComponentsWithout(G, e, order) == Len(get_components(remove_edge(G, e[1], e[2]).g, order))

\* C19: for every graph and every edge e, if e is in the list find_bridges
\* returns then remove_edge(e) increases len(get_components()) by exactly 1,
\* and if e is an edge not in that list remove_edge(e) leaves
\* len(get_components()) unchanged.
C19_BridgesSplit ==
    result.op = "find_bridges" =>
        LET before == Len(get_components(Graph, result.order))
            bridges == {result.out[i] : i \in 1..Len(result.out)}
        IN  /\ \A e \in bridges :
                   ComponentsWithout(Graph, e, result.order) = before + 1
            /\ \A e \in EdgeSet(Graph) \ bridges :
                   ComponentsWithout(Graph, e, result.order) = before

\* C20: for every graph, find_path(start, end) returns a valid path
\* (consecutive nodes adjacent, from start to end) with the fewest hops among
\* all paths from start to end, and returns None exactly when end is not
\* reachable from start or an endpoint is not a node.
C20_FindPathFewestHops ==
    result.op = "find_path" =>
        LET out == result.out
            paths == AllPaths(Graph, result.start, result.end)
        IN  /\ out.raised = ""
            /\ ~out.found <=> ~Reachable(Graph, result.start, result.end)
            /\ out.found =>
                   /\ out.path[1] = result.start
                   /\ out.path[Len(out.path)] = result.end
                   /\ IsWalk(Graph, out.path)
                   /\ \A p \in paths : Len(out.path) <= Len(p)

\* C21: get_components returns the same list of node sets, in the same
\* order, for the same graph whichever order the node set is enumerated in.
C21_ComponentsOrderFree ==
    result.op = "get_components" =>
        \A order \in Orders(nodes) : get_components(Graph, order) = result.out

\* The calls AlgNext makes, as recorded in result.op
AlgorithmNames ==
    {"find_shortest_path", "find_all_shortest_paths", "find_mst", "find_mst_by_component",
     "is_connected", "find_path", "has_cycle", "get_components", "find_dead_ends",
     "find_articulation_points", "find_bridges", "get_network_stats",
     "get_centrality_metrics", "get_network_efficiency"}

C23_NoDivisionByZero ==
    LET out == result.out
        degrees == {get_degree(Graph, n) : n \in nodes}
    IN  /\ result.op \in {"get_network_stats", "get_centrality_metrics",
                          "get_network_efficiency"} => out.raised # "ZeroDivisionError"
        /\ (result.op = "get_network_stats" /\ out.raised = "") =>
               /\ Cardinality(nodes) <= 1 => out.density = Float(0)
               /\ {e \in DOMAIN edge_weights : StrLess(e[1], e[2])} = {} =>
                      out.avg_distance = Float(0) /\ out.avg_time = Float(0)
        /\ (result.op = "get_centrality_metrics" /\ out.raised = "" /\ nodes # {}) =>
               /\ degrees = {0} => \A n \in nodes : out.degree[n] = Float(0)
               /\ Cardinality(nodes) <= 1 => \A n \in nodes : out.betweenness[n] = Float(0)
        /\ (result.op = "get_network_efficiency" /\ out.raised = ""
                /\ Cardinality(nodes) <= 1) =>
               /\ out.global_efficiency = Float(0)
               /\ out.connectivity_score = Float(0)

\* C24: for every graph, find_mst_by_component returns one edge list per
\* connected component, each holding exactly |C| - 1 edges whose endpoints
\* all lie in that component C, and the union of the lists equals the set of
\* edges find_mst returns on the whole graph in the same metric mode.
C24_MstByComponent ==
    result.op = "find_mst_by_component" =>
        LET out == result.out
            lists == out.mst_by_component
            components == get_components(Graph, result.order)
            whole == find_mst(Graph, result.order)
        IN  /\ out.raised = ""
            /\ Len(lists) = Len(components)
            /\ \A i \in 1..Len(lists) :
                   /\ Len(lists[i]) = Cardinality(components[i]) - 1
                   /\ \A j \in 1..Len(lists[i]) :
                          lists[i][j][1] \in components[i] /\ lists[i][j][2] \in components[i]
            /\ whole.raised = ""
            /\ UNION {{lists[i][j] : j \in 1..Len(lists[i])} : i \in 1..Len(lists)}
                   = {whole.edges[j] : j \in 1..Len(whole.edges)}

\* G with node v and the edges at v taken away
Without(G, v) ==
    [G EXCEPT !.nodes = G.nodes \ {v},
              !.adjacency_list = [n \in DOMAIN G.adjacency_list \ {v} |->
                                      SelectSeq(G.adjacency_list[n], LAMBDA m : m # v)]]

\* The number of connected components of G
ComponentCount(G) == Cardinality({Closure(G, {n}) : n \in G.nodes})

\* C25: find_articulation_points returns exactly the nodes v for which
\* removing v with its incident edges yields strictly more connected
\* components than the graph has; for graphs of at most 2 nodes it returns
\* the empty list.
C25_ArticulationPoints ==
    result.op = "find_articulation_points" =>
        /\ {result.out[i] : i \in 1..Len(result.out)} =
               {v \in nodes : ComponentCount(Without(Graph, v)) > ComponentCount(Graph)}
        /\ Cardinality(nodes) <= 2 => result.out = <<>>

\* C26: the betweenness scores get_centrality_metrics reports are determined
\* by the graph alone: every node gets the same score whichever order the
\* node set is enumerated in.
C26_BetweennessOrderFree ==
    result.op = "get_centrality_metrics" =>
        \A order \in Orders(nodes) :
            calculate_betweenness_centrality(Graph, order) =
                calculate_betweenness_centrality(Graph, result.order)

\* The position of pair e in the edge enumeration of find_mst
EnumerationIndex(pairs, e) == CHOOSE i \in 1..Len(pairs) : pairs[i] = e /\ \A k \in 1..(i - 1) : pairs[k] # e

\* (node1, node2) compares below (node1', node2') as tuples of strings
PairLess(e, f) == StrLess(e[1], f[1]) \/ (e[1] = f[1] /\ StrLess(e[2], f[2]))

\* Edges e, f of the result of find_mst at positions i < j, which find_mst
\* therefore processed in that order
ProcessedInOrder(i, j) ==
    /\ result.op = "find_mst" /\ result.out.raised = ""
    /\ i \in 1..Len(result.out.edges) /\ j \in 1..Len(result.out.edges) /\ i < j

\* The weight find_mst read for the edge at position i of its result
ResultWeight(i) == get_edge_weight(Graph, result.out.edges[i][1], result.out.edges[i][2])

\* C27 as stated: find_mst processes edges in ascending order of
\* current-metric-mode weight, and edges of equal weight in the order in
\* which the edge enumeration (outer loop over the nodes, inner loop over
\* each adjacency list, pairs with node1 < node2) produced them.
C27_TiesInEnumerationOrder ==
    \A i, j \in 1..Cardinality(nodes) :
        ProcessedInOrder(i, j) =>
            LET pairs == EnumerateEdges(Graph, result.order, 1, 1)
            IN  \/ LessF(ResultWeight(i), ResultWeight(j))
                \/ /\ ResultWeight(i) = ResultWeight(j)
                   /\ EnumerationIndex(pairs, result.out.edges[i])
                          < EnumerationIndex(pairs, result.out.edges[j])

\* C27 amended: find_mst processes edges in ascending order of
\* current-metric-mode weight, and edges of equal weight in ascending order
\* of (node1, node2), whatever order the enumeration produced them in.
C27_TiesInNodeOrder ==
    \A i, j \in 1..Cardinality(nodes) :
        ProcessedInOrder(i, j) =>
            \/ LessF(ResultWeight(i), ResultWeight(j))
            \/ /\ ResultWeight(i) = ResultWeight(j)
               /\ PairLess(result.out.edges[i], result.out.edges[j])

\* find_mst has accepted two edges of equal weight that the enumeration
\* produced in the opposite order
C27_Witness ==
    \E i, j \in 1..Cardinality(nodes) :
        /\ ProcessedInOrder(i, j)
        /\ ResultWeight(i) = ResultWeight(j)
        /\ LET pairs == EnumerateEdges(Graph, result.order, 1, 1)
           IN  EnumerationIndex(pairs, result.out.edges[i])
                   > EnumerationIndex(pairs, result.out.edges[j])

\* C28: in every state reachable through the constructor and
\* set_metric_type, metric_type is one of the two modes distance or time.
C28_MetricTypeIsAMode == metric_type \in {"distance", "time"}

\* C29: after any sequence of add_node, add_edge, remove_edge, remove_node
\* and clear calls, the keys of adjacency_list are exactly the node set and
\* every neighbor listed in any adjacency list is itself a node of the graph.
C29_NoDanglingNeighbor ==
    /\ DOMAIN adjacency_list = nodes
    /\ \A n \in DOMAIN adjacency_list : \A i \in 1..Len(adjacency_list[n]) :
           adjacency_list[n][i] \in nodes

\* ReverseList(l): the entries of l from the last to the first
ReverseList(l) == [i \in 1..Len(l) |-> l[Len(l) + 1 - i]]

\* The graphs with the adjacency lists of G, as they are or each reversed
ListOrders(G) ==
    {G, [G EXCEPT !.adjacency_list = [n \in DOMAIN G.adjacency_list |->
                                          ReverseList(G.adjacency_list[n])]]}

\* C30: for a fixed graph and metric mode, find_mst returns the same edge
\* list in the same order and the same total weight whichever order the node
\* set and the adjacency lists are enumerated in: every call, whatever order
\* it enumerated the node set in, returns what the enumeration in ascending
\* order returns, and what either enumeration returns on the reversed lists.
C30_MstOrderFree ==
    result.op = "find_mst" =>
        \A G \in ListOrders(Graph) : \A order \in {result.order, Ascending(nodes)} :
            find_mst(G, order) = result.out

\* find_mst has returned at least two edges, two of them of equal weight, on
\* a graph whose edges another order of the node set or of the adjacency
\* lists enumerates differently
C30_Witness ==
    /\ result.op = "find_mst" /\ result.out.raised = ""
    /\ \E i, j \in 1..Len(result.out.edges) :
           i < j /\ get_edge_weight(Graph, result.out.edges[i][1], result.out.edges[i][2])
                      = get_edge_weight(Graph, result.out.edges[j][1], result.out.edges[j][2])
    /\ \E G \in ListOrders(Graph) : \E order \in Orders(nodes) :
           EnumerateEdges(G, order, 1, 1) # EnumerateEdges(Graph, result.order, 1, 1)

====
